---- MODULE Spec2Model ----
(***************************************************************************)
(* Model of the ghcr-cleanup retention pipeline (cleanup.js, ES-module     *)
(* revision): reference collection, package/version inventory, manifest    *)
(* resolution, retention evaluation and deletion, as one run of main().    *)
(*                                                                         *)
(* Strings are sequences of one-character strings.  A Date is a civil      *)
(* record [y, m, d]; the time of day, which setDate/setFullYear leave      *)
(* untouched, is not modelled, and both `new Date()` reads of main fall on *)
(* the same day.                                                           *)
(***************************************************************************)
EXTENDS Integers, Sequences, FiniteSets, Bags, TLC

(***************************************************************************)
(* Bounds of the model.                                                    *)
(***************************************************************************)
\* largest --jobs value explored
MaxJobs == 2

\* items on one page of a paginated listing (the model's per_page)
PerPage == 1

\* most responses one API request is followed through
MaxAttempts == 3

\* length of the longest name sanitizeTag is applied to on its own
MaxLen == 3

(***************************************************************************)
(* sanitizeTag: tag.replace(/[^a-zA-Z0-9._-]+/g, '-')                      *)
(***************************************************************************)
AllowedChars ==
    { "a","b","c","d","e","f","g","h","i","j","k","l","m",
      "n","o","p","q","r","s","t","u","v","w","x","y","z",
      "A","B","C","D","E","F","G","H","I","J","K","L","M",
      "N","O","P","Q","R","S","T","U","V","W","X","Y","Z",
      "0","1","2","3","4","5","6","7","8","9",".","_","-" }

\* variant of ReplaceRuns for the pattern without `+`: every character
\* outside the class becomes a '-' of its own
RECURSIVE ReplaceRuns_EachChar(_, _)
ReplaceRuns_EachChar(tag, inRun) ==
    IF tag = <<>> THEN <<>>
    ELSE IF Head(tag) \in AllowedChars
         THEN <<Head(tag)>> \o ReplaceRuns_EachChar(Tail(tag), FALSE)
         ELSE <<"-">> \o ReplaceRuns_EachChar(Tail(tag), TRUE)

RECURSIVE ReplaceRuns(_, _)
\* inRun: the previous character was already part of a replaced run
ReplaceRuns(tag, inRun) ==
    IF tag = <<>> THEN <<>>
    ELSE IF Head(tag) \in AllowedChars
         THEN <<Head(tag)>> \o ReplaceRuns(Tail(tag), FALSE)
         ELSE (IF inRun THEN <<>> ELSE <<"-">>) \o ReplaceRuns(Tail(tag), TRUE)

sanitizeTag(tag) == ReplaceRuns(tag, FALSE)

(***************************************************************************)
(* `pr-${pr.number}`: the decimal rendering of a pull request number.      *)
(***************************************************************************)
DigitChar(n) == <<"0","1","2","3","4","5","6","7","8","9">>[n + 1]

RECURSIVE Decimal(_)
Decimal(n) == IF n < 10 THEN <<DigitChar(n)>>
              ELSE Decimal(n \div 10) \o <<DigitChar(n % 10)>>

PrName(number) == <<"p","r","-">> \o Decimal(number)

(***************************************************************************)
(* Dates (JavaScript Date, day granularity).                               *)
(***************************************************************************)
IsLeap(y) == (y % 4 = 0 /\ y % 100 # 0) \/ y % 400 = 0

DaysInMonth(y, m) ==
    IF m = 2 THEN (IF IsLeap(y) THEN 29 ELSE 28)
    ELSE IF m \in {4, 6, 9, 11} THEN 30 ELSE 31

MkDate(y, m, d) == [y |-> y, m |-> m, d |-> d]

\* Date.prototype.setDate(n) for n >= 0: day 0 is the last day of the
\* previous month.
SetDate(date, n) ==
    IF n >= 1 THEN MkDate(date.y, date.m, n)
    ELSE IF date.m = 1 THEN MkDate(date.y - 1, 12, 31)
    ELSE MkDate(date.y, date.m - 1, DaysInMonth(date.y, date.m - 1))

\* Date.prototype.setFullYear(y): same month and day in year y; a day that
\* does not exist there (29 February) overflows into the next month.
SetFullYear(date, y) ==
    IF date.d > DaysInMonth(y, date.m)
    THEN MkDate(y, date.m + 1, date.d - DaysInMonth(y, date.m))
    ELSE MkDate(y, date.m, date.d)

\* a < b on Dates
DateLess(a, b) ==
    \/ a.y < b.y
    \/ a.y = b.y /\ a.m < b.m
    \/ a.y = b.y /\ a.m = b.m /\ a.d < b.d

(***************************************************************************)
(* Names used as branch names, tag names and image version labels.         *)
(***************************************************************************)
NameMain     == <<"m","a","i","n">>
NameMainCaps == <<"M","a","i","n">>
NameTag      == <<"v","1",".","0",".","0">>
NameStale    == <<"v","0",".","9",".","0">>
NameSlash    == <<"f","e","a","t","/","x">>
EmptyString  == <<>>

(***************************************************************************)
(* The container registry: what GET ./manifests/<digest> and               *)
(* GET ./blobs/<digest> answer.  status "ok" is a 2xx response with a JSON *)
(* body; "http_error" is a non-2xx response; "bad_json" is a 2xx response  *)
(* whose body does not parse.                                              *)
(***************************************************************************)
DockerManifest == "application/vnd.docker.distribution.manifest.v2+json"
OciManifest    == "application/vnd.oci.image.manifest.v1+json"
DockerList     == "application/vnd.docker.distribution.manifest.list.v2+json"
OciIndex       == "application/vnd.oci.image.index.v1+json"
OtherType      == "application/vnd.oci.artifact.manifest.v1+json"

Leaf(type, cfg) ==
    [status |-> "ok", mediaType |-> type, config |-> cfg, manifests |-> <<>>]
Index(type, kids) ==
    [status |-> "ok", mediaType |-> type, config |-> "none", manifests |-> kids]
NoManifest(status) ==
    [status |-> status, mediaType |-> "", config |-> "none", manifests |-> <<>>]

Manifests ==
    [ mMain     |-> Leaf(DockerManifest, "cMain"),
      mStale    |-> Leaf(OciManifest, "cStale"),
      mSlash    |-> Leaf(DockerManifest, "cSlash"),
      mCaps     |-> Leaf(OciManifest, "cCaps"),
      mNoVer    |-> Leaf(DockerManifest, "cNoVer"),
      mEmptyVer |-> Leaf(DockerManifest, "cEmptyVer"),
      mNullLab  |-> Leaf(DockerManifest, "cNullLab"),
      mNoCfg    |-> Leaf(OciManifest, "none"),
      mBlobErr  |-> Leaf(DockerManifest, "cErr"),
      mErr      |-> NoManifest("http_error"),
      mBadJson  |-> NoManifest("bad_json"),
      mUnknown  |-> Leaf(OtherType, "cStale"),
      iMixed    |-> Index(OciIndex, <<"mStale", "mMain">>),
      iStale    |-> Index(DockerList, <<"mStale", "mCaps">>),
      iNoVer    |-> Index(OciIndex, <<"mStale", "mNoVer">>),
      iEmpty    |-> Index(OciIndex, <<>>),
      iNested   |-> Index(OciIndex, <<"iStale", "mStale">>),
      iDup      |-> Index(DockerList, <<"mStale", "mStale">>),
      iUnkChild |-> Index(OciIndex, <<"mStale", "mUnknown">>),
      iProtUnk  |-> Index(DockerList, <<"mMain", "mUnknown">>),
      iDeep     |-> Index(DockerList, <<"iNested", "mCaps">>) ]

Digests == DOMAIN Manifests

\* An image configuration blob.  labels: "object" when config.Labels is an
\* object, "null" when it is null or absent.
Config(label) ==
    [status |-> "ok", labels |-> "object", hasVersion |-> TRUE, version |-> label]
ConfigNoVersion ==
    [status |-> "ok", labels |-> "object", hasVersion |-> FALSE, version |-> EmptyString]
ConfigNullLabels ==
    [status |-> "ok", labels |-> "null", hasVersion |-> FALSE, version |-> EmptyString]
NoBlob(status) ==
    [status |-> status, labels |-> "null", hasVersion |-> FALSE, version |-> EmptyString]

Blobs ==
    [ cMain     |-> Config(NameMain),
      cStale    |-> Config(NameStale),
      cSlash    |-> Config(NameSlash),
      cCaps     |-> Config(NameMainCaps),
      cNoVer    |-> ConfigNoVersion,
      cEmptyVer |-> Config(EmptyString),
      cNullLab  |-> ConfigNullLabels,
      cErr      |-> NoBlob("http_error") ]

(***************************************************************************)
(* The source-control side: packages of the owner and the repository.     *)
(***************************************************************************)
RepoNodeId == "this"

\* packages listed for the owner; repository is the node_id of the package's
\* repository association, "none" when the package has none
Packages ==
    << [name |-> "pA", repository |-> "this",  versions |-> <<"v1">>],
       [name |-> "pB", repository |-> "other", versions |-> <<"x1">>],
       [name |-> "pC", repository |-> "none",  versions |-> <<"x2">>],
       [name |-> "pD", repository |-> "this",  versions |-> <<"v2">>] >>

PackageIds == 1..Len(Packages)

RECURSIVE Flatten(_)
Flatten(seqs) == IF seqs = <<>> THEN <<>> ELSE Head(seqs) \o Flatten(Tail(seqs))

Range(seq) == { seq[k] : k \in DOMAIN seq }

AllVersions == UNION { Range(Packages[i].versions) : i \in PackageIds }

\* candidate clocks of a run and candidate updated_at stamps of a version
Nows ==
    { MkDate(2024, 1, 1), MkDate(2024, 2, 29), MkDate(2023, 6, 15) }

UpdatedDates ==
    { MkDate(2024, 2, 29), MkDate(2024, 1, 1), MkDate(2023, 12, 31),
      MkDate(2023, 11, 20), MkDate(2023, 3, 1), MkDate(2022, 6, 1),
      MkDate(2021, 6, 1) }

\* the branches, tags and pull requests of the repository, in the order the
\* API lists them
RefWorlds ==
    { [branches |-> <<NameMain, NameSlash>>, tags |-> <<NameTag>>,
       pulls |-> <<[number |-> 42, state |-> "open"], [number |-> 7, state |-> "closed"]>>],
      [branches |-> <<NameMain>>, tags |-> <<NameTag, NameStale>>,
       pulls |-> <<[number |-> 7, state |-> "closed"]>>] }

\* octokit.paginate.iterator: the responses of a paginated listing, one per
\* page; a listing without items is one response with empty data
RECURSIVE Pages(_)
Pages(items) ==
    IF Len(items) <= PerPage THEN <<items>>
    ELSE <<SubSeq(items, 1, PerPage)>>
         \o Pages(SubSeq(items, PerPage + 1, Len(items)))

ListingKinds == {"branches", "tags", "pulls"}

\* what the API lists for repo.branches_url, repo.tags_url and
\* repo.pulls_url with { state: 'open' }
Listed(l, kind) ==
    IF kind = "branches" THEN l.branches
    ELSE IF kind = "tags" THEN l.tags
    ELSE SelectSeq(l.pulls, LAMBDA pr : pr.state = "open")

\* branch => branch.name, tag => tag.name, pr => `pr-${pr.number}`
RefName(kind, item) == IF kind = "pulls" THEN PrName(item.number) ELSE item

\* what the versions listing returns for the versions of the model: v1 takes
\* any manifest of the registry and any stamp, v2 one of a few, and the
\* versions of the packages of other repositories are old stale images
V2Choices ==
    { [name |-> "mStale", updated_at |-> MkDate(2023, 3, 1)],
      [name |-> "mMain",  updated_at |-> MkDate(2021, 6, 1)],
      [name |-> "mErr",   updated_at |-> MkDate(2023, 3, 1)] }

ForeignVersion == [name |-> "mStale", updated_at |-> MkDate(2021, 6, 1)]

VARIABLES
    now,          \* the clock read by new Date()
    dryRun,       \* args.dryRun
    jobs,         \* args.jobs
    listings,     \* branches, tags and pull requests of the repository
    versionData,  \* version id -> [name, updated_at] as listed by the API
    pc,           \* position of main(): repo, refs, packages, pipeline, done, fatal
    refPage,      \* listing kind -> number of its pages received
    refNames,     \* the names toArray() has collected so far
    refError,     \* the listing kind whose page request failed, or "none"
    refs,         \* the array refs, as a set
    pkgState,     \* package index -> unlisted, listing, listed, failed
    evalState,    \* version -> pending, running, keep, delete (the filter's verdict)
    reason,       \* version -> why it was decided
    mstack,       \* version -> digests fetchManifests still has to fetch
    leafq,        \* version -> leaf manifests waiting for fetchConfig
    cfgq,         \* version -> configs waiting for the every() callback
    requests,     \* version -> bag of registry digests requested for it
    delState,     \* version -> none, returned, inflight, ok, failed (the map's promise)
    delCalls,     \* version -> number of DELETE requests issued for it
    logged,       \* versions whose DELETE was only logged
    consumed,     \* versions the reduce has counted
    deleted,      \* the reduce accumulator
    summary,      \* the counts of the summary lines logged so far
    reqKind,      \* one API request seen through the throttling: its route
    reqState,     \* idle, sent, waiting (for retryAfter), resolved, rejected
    retryCount,   \* options.request.retryCount of that request
    responses,    \* the responses that request has received, in order
    strPhase,     \* sanitizeTag on its own: idle, input, once, twice
    given,        \* the name given to sanitizeTag
    twin,         \* a second name given to sanitizeTag
    sanitized,    \* sanitizeTag(given)
    twinSanitized, \* sanitizeTag(twin)
    again         \* sanitizeTag(sanitizeTag(given))

world == <<now, dryRun, jobs, listings, versionData>>
evalVars == <<evalState, reason, mstack, leafq, cfgq, requests>>
delVars == <<delState, delCalls, logged, consumed, deleted>>
refVars == <<refPage, refNames, refError>>
mainVars == <<world, pc, refVars, refs, pkgState, evalVars, delVars, summary>>
requestVars == <<reqKind, reqState, retryCount, responses>>
stringVars == <<strPhase, given, twin, sanitized, twinSanitized, again>>
vars == <<mainVars, requestVars, stringVars>>

(***************************************************************************)
(* main(): the streams                                                     *)
(***************************************************************************)
\* variant of repoPackages without the filter on the repository association
repoPackages_AnyRepository == PackageIds

\* packages.filter(pkg => pkg.repository && pkg.repository.node_id === repo.node_id)
repoPackages ==
    { i \in PackageIds : Packages[i].repository # "none"
                         /\ Packages[i].repository = RepoNodeId }

\* the order in which the versions stream yields versions
RECURSIVE VersionsFrom(_)
VersionsFrom(i) ==
    IF i > Len(Packages) THEN <<>>
    ELSE (IF i \in repoPackages THEN Packages[i].versions ELSE <<>>)
         \o VersionsFrom(i + 1)

versions == VersionsFrom(1)

PosOf(v) == CHOOSE k \in DOMAIN versions : versions[k] = v
Before(v) == { versions[k] : k \in 1..(PosOf(v) - 1) }
InStream == Range(versions)
PkgOf(v) == CHOOSE i \in PackageIds : v \in Range(Packages[i].versions)

\* const minAge = new Date(); minAge.setDate(minAge.getDate() - 1)
minAge(clock) == SetDate(clock, clock.d - 1)

\* const maxAge = new Date(); maxAge.setFullYear(minAge.getFullYear() - 1)
maxAge(clock) == SetFullYear(clock, minAge(clock).y - 1)

\* variant of TooNew that compares with the clock itself, not with minAge
TooNew_NoDayBack(updated, clock) == DateLess(clock, updated)

\* updated > minAge
TooNew(updated, clock) == DateLess(minAge(clock), updated)

\* updated < maxAge
TooOld(updated, clock) == DateLess(updated, maxAge(clock))

\* merge_stream(branches, tags, prs).map(sanitizeTag).toArray()
CollectedRefs(l) ==
    { sanitizeTag(n) : n \in Range(l.branches) \cup Range(l.tags) }
    \cup { sanitizeTag(PrName(pr.number)) :
             pr \in { q \in Range(l.pulls) : q.state = "open" } }

\* the inputs of a run: clock, arguments, repository and package contents
Inputs ==
    /\ now \in Nows
    /\ dryRun \in BOOLEAN
    /\ jobs \in 1..MaxJobs
    /\ listings \in RefWorlds
    /\ \E d1 \in Digests, u1 \in UpdatedDates, c2 \in V2Choices :
         versionData = [v \in AllVersions |->
                          IF v = "v1" THEN [name |-> d1, updated_at |-> u1]
                          ELSE IF v = "v2" THEN c2
                          ELSE ForeignVersion]

\* main() has been entered and nothing was requested yet
StartOfMain ==
    /\ pc = "repo"
    /\ refPage = [kind \in ListingKinds |-> 0]
    /\ refNames = {}
    /\ refError = "none"
    /\ refs = {}
    /\ pkgState = [i \in PackageIds |-> "unlisted"]
    /\ evalState = [v \in AllVersions |-> "pending"]
    /\ reason = [v \in AllVersions |-> "none"]
    /\ mstack = [v \in AllVersions |-> <<>>]
    /\ leafq = [v \in AllVersions |-> <<>>]
    /\ cfgq = [v \in AllVersions |-> <<>>]
    /\ requests = [v \in AllVersions |-> EmptyBag]
    /\ delState = [v \in AllVersions |-> "none"]
    /\ delCalls = [v \in AllVersions |-> 0]
    /\ logged = {}
    /\ consumed = {}
    /\ deleted = 0
    /\ summary = <<>>

\* no API request is singled out
NoRequest ==
    /\ reqKind = "none"
    /\ reqState = "idle"
    /\ retryCount = 0
    /\ responses = <<>>

\* sanitizeTag is not applied on its own
NoString ==
    /\ strPhase = "idle"
    /\ given = <<>> /\ twin = <<>>
    /\ sanitized = <<>> /\ twinSanitized = <<>> /\ again = <<>>

Init == Inputs /\ StartOfMain /\ NoRequest /\ NoString

(***************************************************************************)
(* Start of main(): repository, references, packages                       *)
(***************************************************************************)
\* await octokit.request('GET /repos/{owner}/{repo}')
GetRepo ==
    /\ pc = "repo"
    /\ \E ok \in BOOLEAN : pc' = IF ok THEN "refs" ELSE "fatal"
    /\ UNCHANGED <<stringVars, requestVars, world, refVars, refs, pkgState, evalVars, delVars, summary>>

\* variant of HasNextPage that stops after the first page of a listing
HasNextPage_FirstPageOnly(kind) == refPage[kind] < 1

\* the paginate iterator of a listing has a page left to request
HasNextPage(kind) == refPage[kind] < Len(Pages(Listed(listings, kind)))

\* variant of RefPageFailed that drops the failed page and reads on
RefPageFailed_Skipped(kind) ==
    /\ refError' = kind
    /\ refPage' = [refPage EXCEPT ![kind] = @ + 1]
    /\ UNCHANGED <<pc, refNames>>

\* a page request of a listing failed: the iterator throws, the merged stream
\* emits the error, toArray() rejects and main() with it
RefPageFailed(kind) ==
    /\ refError' = kind
    /\ pc' = "fatal"
    /\ UNCHANGED <<refPage, refNames>>

\* the response to the next page of one of the three listings, which
\* merge_stream reads side by side: .flatMap(response => response.data)
\* .map(name), then .map(sanitizeTag) into toArray()
FetchRefPage(kind) ==
    /\ pc = "refs"
    /\ HasNextPage(kind)
    /\ \E ok \in BOOLEAN :
         IF ok
         THEN LET data == Pages(Listed(listings, kind))[refPage[kind] + 1] IN
              /\ refPage' = [refPage EXCEPT ![kind] = @ + 1]
              /\ refNames' = refNames \cup
                    { sanitizeTag(RefName(kind, data[k])) : k \in DOMAIN data }
              /\ UNCHANGED <<pc, refError>>
         ELSE RefPageFailed(kind)
    /\ UNCHANGED <<stringVars, requestVars, world, refs, pkgState, evalVars, delVars, summary>>

\* const refs = await merge_stream(branches, tags, prs).map(sanitizeTag).toArray():
\* the three streams ended
CollectRefs ==
    /\ pc = "refs"
    /\ \A kind \in ListingKinds : ~HasNextPage(kind)
    /\ refs' = refNames
    /\ pc' = "packages"
    /\ UNCHANGED <<stringVars, requestVars, world, refVars, pkgState, evalVars, delVars, summary>>

\* the packages stream: GET {+user_url}/packages, pulled by the reduce
ListPackages ==
    /\ pc = "packages"
    /\ \E ok \in BOOLEAN : pc' = IF ok THEN "pipeline" ELSE "fatal"
    /\ UNCHANGED <<stringVars, requestVars, world, refVars, refs, pkgState, evalVars, delVars, summary>>

(***************************************************************************)
(* repoPackagesWithVersions: repoPackages.map(async pkg => ..., {concurrency}) *)
(***************************************************************************)
Listing == { i \in PackageIds : pkgState[i] = "listing" }

\* variant of HasSlot that ignores the concurrency option
HasSlot_Unbounded(busy, concurrency) == TRUE

\* Readable.map / filter with { concurrency }: the callback is called on the
\* next item only while fewer than `concurrency` of its promises are pending
HasSlot(busy, concurrency) == Cardinality(busy) < concurrency

StartListVersions(i) ==
    /\ pc = "pipeline"
    /\ i \in repoPackages
    /\ pkgState[i] = "unlisted"
    /\ \A j \in repoPackages : j < i => pkgState[j] # "unlisted"
    /\ HasSlot(Listing, jobs)
    /\ pkgState' = [pkgState EXCEPT ![i] = "listing"]
    /\ UNCHANGED <<stringVars, requestVars, world, refVars, pc, refs, evalVars, delVars, summary>>

FinishListVersions(i) ==
    /\ pc = "pipeline"
    /\ pkgState[i] = "listing"
    /\ \E ok \in BOOLEAN :
         pkgState' = [pkgState EXCEPT ![i] = IF ok THEN "listed" ELSE "failed"]
    /\ UNCHANGED <<stringVars, requestVars, world, refVars, pc, refs, evalVars, delVars, summary>>

\* variant of ListingFailure in which the rejection never surfaces
ListingFailure_NeverSurfaces ==
    /\ pc = "pipeline"
    /\ FALSE
    /\ UNCHANGED vars

\* a rejected listing reaches the head of the ordered map and destroys the
\* pipeline: the reduce rejects and main() with it
ListingFailure ==
    /\ pc = "pipeline"
    /\ \E i \in repoPackages :
         /\ pkgState[i] = "failed"
         /\ \A j \in repoPackages : j < i => pkgState[j] = "listed"
    /\ pc' = "fatal"
    /\ UNCHANGED <<stringVars, requestVars, world, refVars, refs, pkgState, evalVars, delVars, summary>>

\* variant of Available that hands a version on before its package is listed
Available_BeforeListed(v) == v \in InStream

\* the versions stream has yielded v: its package and every package before
\* it are listed
Available(v) ==
    /\ v \in InStream
    /\ \A j \in repoPackages : j <= PkgOf(v) => pkgState[j] = "listed"

(***************************************************************************)
(* ManifestResolver: DockerRegistry.fetchJson, DockerRepository.fetch*     *)
(***************************************************************************)
manifestTypes == {DockerManifest, OciManifest}
indexTypes == {DockerList, OciIndex}

\* DockerRegistry.fetch throws on !response.ok, response.json() on a body
\* that does not parse
fetchJson(response) ==
    IF response.status = "ok" THEN [threw |-> FALSE, body |-> response]
    ELSE [threw |-> TRUE, body |-> response]

\* variant of fetchManifests for an index of leaf manifests only: a child
\* that is itself an index is not resolved
fetchManifests_FlatOnly(reference) ==
    LET response == fetchJson(Manifests[reference]) IN
    IF response.threw
    THEN [threw |-> TRUE, yields |-> <<>>, expands |-> <<>>]
    ELSE IF response.body.mediaType \in manifestTypes
    THEN [threw |-> FALSE, yields |-> <<reference>>, expands |-> <<>>]
    ELSE IF response.body.mediaType \in indexTypes
    THEN [threw |-> FALSE, yields |-> <<>>,
          expands |-> SelectSeq(response.body.manifests,
                                LAMBDA d : Manifests[d].mediaType \notin indexTypes)]
    ELSE [threw |-> TRUE, yields |-> <<>>, expands |-> <<>>]

\* variant of fetchManifests that skips a manifest of unknown media type
fetchManifests_SkipUnknown(reference) ==
    LET response == fetchJson(Manifests[reference]) IN
    IF response.threw
    THEN [threw |-> TRUE, yields |-> <<>>, expands |-> <<>>]
    ELSE IF response.body.mediaType \in manifestTypes
    THEN [threw |-> FALSE, yields |-> <<reference>>, expands |-> <<>>]
    ELSE IF response.body.mediaType \in indexTypes
    THEN [threw |-> FALSE, yields |-> <<>>, expands |-> response.body.manifests]
    ELSE [threw |-> FALSE, yields |-> <<>>, expands |-> <<>>]

\* one call of fetchManifests(reference), up to the stream it returns:
\* yields: the manifests the stream holds at once; expands: the child
\* digests its flatMap will call fetchManifests on
fetchManifests(reference) ==
    LET response == fetchJson(Manifests[reference]) IN
    IF response.threw
    THEN [threw |-> TRUE, yields |-> <<>>, expands |-> <<>>]
    ELSE IF response.body.mediaType \in manifestTypes
    THEN [threw |-> FALSE, yields |-> <<reference>>, expands |-> <<>>]
    ELSE IF response.body.mediaType \in indexTypes
    THEN [threw |-> FALSE, yields |-> <<>>, expands |-> response.body.manifests]
    ELSE [threw |-> TRUE, yields |-> <<>>, expands |-> <<>>]

\* fetchConfig(manifest): reading manifest.config.digest of a manifest
\* without config is a TypeError before any request is made
fetchConfig(manifest) ==
    IF Manifests[manifest].config = "none"
    THEN [threw |-> TRUE, requested |-> <<>>, config |-> "none"]
    ELSE LET data == fetchJson(Blobs[Manifests[manifest].config]) IN
         [threw |-> data.threw,
          requested |-> <<Manifests[manifest].config>>,
          config |-> Manifests[manifest].config]

\* variant of LabelVote without the `if (!refName)` branch
LabelVote_NoMissingCheck(config, refSet) ==
    IF config.labels # "object" THEN "throw"
    ELSE IF config.hasVersion /\ config.version \in refSet THEN "protected"
    ELSE "unprotected"

\* the callback of configs.every: "throw" when config.config.Labels is not
\* an object, else the callback's return value
LabelVote(config, refSet) ==
    IF config.labels # "object" THEN "throw"
    ELSE IF ~config.hasVersion \/ config.version = EmptyString THEN "no_label"
    ELSE IF config.version \in refSet THEN "protected"
    ELSE "unprotected"

(***************************************************************************)
(* RetentionEvaluator: versions.filter(async version => ..., {concurrency}) *)
(***************************************************************************)
Running == { v \in AllVersions : evalState[v] = "running" }
Decided(v) == evalState[v] \in {"keep", "delete"}

\* the filter callback returns for v
Decide(v, verdict, why) ==
    /\ evalState' = [evalState EXCEPT ![v] = verdict]
    /\ reason' = [reason EXCEPT ![v] = why]
    /\ mstack' = [mstack EXCEPT ![v] = <<>>]
    /\ leafq' = [leafq EXCEPT ![v] = <<>>]
    /\ cfgq' = [cfgq EXCEPT ![v] = <<>>]

\* variant of Caught in which the failed call is made again
Caught_Retries(v) ==
    UNCHANGED <<pc, evalState, reason, mstack, leafq, cfgq>>

\* variant of Caught without the try/catch: the exception rejects the filter
\* and main() with it
Caught_Uncaught(v) ==
    /\ pc' = "fatal"
    /\ UNCHANGED <<evalState, reason, mstack, leafq, cfgq>>

\* catch (ex) { octokit.log.error(...) }: the callback returns undefined, the
\* filter drops the version, and main() goes on
Caught(v) ==
    /\ Decide(v, "keep", "resolution_error")
    /\ UNCHANGED pc

\* the callback up to its first await
StartEval(v) ==
    /\ pc = "pipeline"
    /\ Available(v)
    /\ evalState[v] = "pending"
    /\ \A u \in Before(v) : evalState[u] # "pending"
    /\ HasSlot(Running, jobs)
    /\ LET updated == versionData[v].updated_at IN
       IF TooNew(updated, now)
       THEN Decide(v, "keep", "too_new")
       ELSE IF TooOld(updated, now)
       THEN Decide(v, "delete", "too_old")
       ELSE /\ evalState' = [evalState EXCEPT ![v] = "running"]
            /\ mstack' = [mstack EXCEPT ![v] = <<versionData[v].name>>]
            /\ UNCHANGED <<reason, leafq, cfgq>>
    /\ UNCHANGED <<stringVars, requestVars, world, refVars, pc, refs, pkgState, requests, delVars, summary>>

\* one GET ./manifests/<digest> of fetchManifests and its response
FetchManifestStep(v) ==
    /\ pc = "pipeline"
    /\ evalState[v] = "running"
    /\ mstack[v] # <<>>
    /\ LET reference == Head(mstack[v])
           result == fetchManifests(reference) IN
       /\ requests' = [requests EXCEPT ![v] = @ (+) SetToBag({reference})]
       /\ IF result.threw
          THEN Caught(v)
          ELSE /\ mstack' = [mstack EXCEPT ![v] = result.expands \o Tail(@)]
               /\ leafq' = [leafq EXCEPT ![v] = @ \o result.yields]
               /\ UNCHANGED <<pc, evalState, reason, cfgq>>
    /\ UNCHANGED <<stringVars, requestVars, world, refVars, refs, pkgState, delVars, summary>>

\* manifests.map(manifest => this.fetchConfig(manifest)): one call
FetchConfigStep(v) ==
    /\ pc = "pipeline"
    /\ evalState[v] = "running"
    /\ leafq[v] # <<>>
    /\ LET result == fetchConfig(Head(leafq[v])) IN
       /\ requests' = [requests EXCEPT ![v] = @ (+) SetToBag(Range(result.requested))]
       /\ IF result.threw
          THEN Caught(v)
          ELSE /\ leafq' = [leafq EXCEPT ![v] = Tail(@)]
               /\ cfgq' = [cfgq EXCEPT ![v] = Append(@, result.config)]
               /\ UNCHANGED <<pc, evalState, reason, mstack>>
    /\ UNCHANGED <<stringVars, requestVars, world, refVars, refs, pkgState, delVars, summary>>

\* configs.every(async config => ...): the callback on the next config
EveryStep(v) ==
    /\ pc = "pipeline"
    /\ evalState[v] = "running"
    /\ cfgq[v] # <<>>
    /\ LET vote == LabelVote(Blobs[Head(cfgq[v])], refs) IN
       IF vote = "throw" THEN Caught(v)
       ELSE IF vote = "no_label"
       THEN Decide(v, "keep", "label_missing") /\ UNCHANGED pc
       ELSE IF vote = "protected"
       THEN Decide(v, "keep", "label_protected") /\ UNCHANGED pc
       ELSE /\ cfgq' = [cfgq EXCEPT ![v] = Tail(@)]
            /\ UNCHANGED <<pc, evalState, reason, mstack, leafq>>
    /\ UNCHANGED <<stringVars, requestVars, world, refVars, refs, pkgState, requests, delVars, summary>>

\* variant of EveryDone in which every() over a stream without any config
\* is false
EveryDone_NeedsAConfig(v) ==
    /\ pc = "pipeline"
    /\ evalState[v] = "running"
    /\ mstack[v] = <<>> /\ leafq[v] = <<>> /\ cfgq[v] = <<>>
    /\ IF BagToSet(requests[v]) \cap DOMAIN Blobs = {}
       THEN Decide(v, "keep", "label_missing")
       ELSE Decide(v, "delete", "label_unprotected")
    /\ UNCHANGED <<stringVars, requestVars, world, refVars, pc, refs, pkgState, requests, delVars, summary>>

\* the configs stream ended and no callback returned false: every() is true
EveryDone(v) ==
    /\ pc = "pipeline"
    /\ evalState[v] = "running"
    /\ mstack[v] = <<>> /\ leafq[v] = <<>> /\ cfgq[v] = <<>>
    /\ Decide(v, "delete", "label_unprotected")
    /\ UNCHANGED <<stringVars, requestVars, world, refVars, pc, refs, pkgState, requests, delVars, summary>>

(***************************************************************************)
(* DeletionExecutor: toDelete.map(version => ..., {concurrency}).reduce()  *)
(***************************************************************************)
InFlight == { v \in AllVersions : delState[v] = "inflight" }

\* variant of Yielded in which the filter passes every evaluated version on
Yielded_AnyVerdict(v) ==
    /\ v \in InStream
    /\ evalState[v] \in {"keep", "delete"}
    /\ \A u \in Before(v) : evalState[u] \in {"keep", "delete"}

\* the filter has yielded v: streams keep the order, so every version before
\* v has its verdict
Yielded(v) ==
    /\ v \in InStream
    /\ evalState[v] = "delete"
    /\ \A u \in Before(v) : Decided(u)

\* variant of DeleteCall whose request is not in an else branch
DeleteCall_NoElse(dry) == [log |-> dry, request |-> TRUE]

\* variant of Await in which a rejected DELETE is swallowed
Await_SwallowRejection(promise) == "resolve"

\* variant of Reducer that counts only the responses of DELETE requests
Reducer_CountsResponses(previous, value) ==
    IF value = "undefined" THEN previous ELSE previous + 1

\* what the map callback does with a version: log `DELETE <url>` only, or
\* return octokit.request('DELETE {+version_url}')
DeleteCall(dry) ==
    IF dry THEN [log |-> TRUE, request |-> FALSE]
    ELSE [log |-> FALSE, request |-> TRUE]

\* awaiting the map's promise for a version: a settled DELETE response or the
\* callback's undefined resolve, a rejected DELETE rejects
Await(promise) == IF promise = "failed" THEN "reject" ELSE "resolve"

\* previous => previous + 1
Reducer(previous, value) == previous + 1

\* variant of StartDelete in which the map may take a version it has
\* already taken
StartDelete_Again(v) ==
    /\ pc = "pipeline"
    /\ Yielded(v)
    /\ delState[v] # "inflight"
    /\ \A u \in Before(v) : evalState[u] = "delete" => delState[u] # "none"
    /\ HasSlot(InFlight, jobs)
    /\ LET call == DeleteCall(dryRun) IN
       /\ logged' = IF call.log THEN logged \cup {v} ELSE logged
       /\ delCalls' = [delCalls EXCEPT ![v] = IF call.request THEN @ + 1 ELSE @]
       /\ delState' = [delState EXCEPT ![v] =
                         IF call.request THEN "inflight" ELSE "returned"]
    /\ UNCHANGED <<stringVars, requestVars, world, refVars, pc, refs, pkgState, evalVars, consumed, deleted, summary>>

\* the map callback on the next version of the deletion stream
StartDelete(v) ==
    /\ pc = "pipeline"
    /\ Yielded(v)
    /\ delState[v] = "none"
    /\ \A u \in Before(v) : evalState[u] = "delete" => delState[u] # "none"
    /\ HasSlot(InFlight, jobs)
    /\ LET call == DeleteCall(dryRun) IN
       /\ logged' = IF call.log THEN logged \cup {v} ELSE logged
       /\ delCalls' = [delCalls EXCEPT ![v] = IF call.request THEN @ + 1 ELSE @]
       /\ delState' = [delState EXCEPT ![v] =
                         IF call.request THEN "inflight" ELSE "returned"]
    /\ UNCHANGED <<stringVars, requestVars, world, refVars, pc, refs, pkgState, evalVars, consumed, deleted, summary>>

\* the response to DELETE {+version_url}: octokit.request rejects on failure
FinishDelete(v) ==
    /\ pc = "pipeline"
    /\ delState[v] = "inflight"
    /\ \E ok \in BOOLEAN :
         delState' = [delState EXCEPT ![v] = IF ok THEN "ok" ELSE "failed"]
    /\ UNCHANGED <<stringVars, requestVars, world, refVars, pc, refs, pkgState, evalVars, delCalls, logged, consumed,
                   deleted, summary>>

\* .reduce(previous => previous + 1, 0) takes the map's next result, in order;
\* a rejected DELETE destroys the stream and the reduce rejects
Reduce(v) ==
    /\ pc = "pipeline"
    /\ v \in InStream
    /\ evalState[v] = "delete"
    /\ v \notin consumed
    /\ delState[v] \in {"returned", "ok", "failed"}
    /\ \A u \in Before(v) : evalState[u] = "delete" => u \in consumed
    /\ IF Await(delState[v]) = "reject"
       THEN /\ pc' = "fatal"
            /\ UNCHANGED <<consumed, deleted>>
       ELSE /\ consumed' = consumed \cup {v}
            /\ deleted' = Reducer(deleted,
                                  IF delState[v] = "returned" THEN "undefined"
                                  ELSE "response")
            /\ UNCHANGED pc
    /\ UNCHANGED <<stringVars, requestVars, world, refVars, refs, pkgState, evalVars, delState, delCalls, logged, summary>>

\* variant of Summary in which a package whose listing failed is left out
\* and the rest of the run is reported
Summary_WithoutFailedPackages ==
    /\ pc = "pipeline"
    /\ \A i \in repoPackages : pkgState[i] \in {"listed", "failed"}
    /\ \A v \in InStream :
          pkgState[PkgOf(v)] = "listed" =>
             Decided(v) /\ (evalState[v] = "delete" => v \in consumed)
    /\ pc' = "done"
    /\ summary' = Append(summary, deleted)
    /\ UNCHANGED <<stringVars, requestVars, world, refVars, refs, pkgState, evalVars, delVars>>

\* the streams ended: `Will delete N` / `Deleted N package versions`
Summary ==
    /\ pc = "pipeline"
    /\ \A i \in repoPackages : pkgState[i] = "listed"
    /\ \A v \in InStream : Decided(v) /\ (evalState[v] = "delete" => v \in consumed)
    /\ pc' = "done"
    /\ summary' = Append(summary, deleted)
    /\ UNCHANGED <<stringVars, requestVars, world, refVars, refs, pkgState, evalVars, delVars>>

Next ==
    \/ GetRepo
    \/ \E kind \in ListingKinds : FetchRefPage(kind)
    \/ CollectRefs
    \/ ListPackages
    \/ \E i \in PackageIds : StartListVersions(i)
    \/ \E i \in PackageIds : FinishListVersions(i)
    \/ ListingFailure
    \/ \E v \in AllVersions : StartEval(v)
    \/ \E v \in AllVersions : FetchManifestStep(v)
    \/ \E v \in AllVersions : FetchConfigStep(v)
    \/ \E v \in AllVersions : EveryStep(v)
    \/ \E v \in AllVersions : EveryDone(v)
    \/ \E v \in AllVersions : StartDelete(v)
    \/ \E v \in AllVersions : FinishDelete(v)
    \/ \E v \in AllVersions : Reduce(v)
    \/ Summary

Spec == Init /\ [][Next]_vars

\* the runs of 29 February 2024 with v1 updated that day, a season or
\* years ago
FairInit ==
    /\ Init
    /\ now = MkDate(2024, 2, 29)
    /\ versionData["v1"].updated_at \in
          { MkDate(2024, 2, 29), MkDate(2023, 11, 20), MkDate(2021, 6, 1) }

\* every HTTP request gets its response and the event loop runs every
\* continuation that is ready: a run does not stand still while it has a
\* step to take
FairSpec == FairInit /\ [][Next]_vars /\ WF_vars(Next)

(***************************************************************************)
(* new Octokit({ throttle: { onRateLimit, onSecondaryRateLimit } }): one   *)
(* API request of main() seen through the throttling plugin, which calls   *)
(* the callback of the limit a response hit and retries the request after  *)
(* retryAfter seconds when the callback returns true.                      *)
(***************************************************************************)
\* the requests main() makes through octokit
Routes ==
    { "GET /repos/{owner}/{repo}", "GET branches_url", "GET pulls_url",
      "GET tags_url", "GET {+user_url}/packages", "GET {+package_url}/versions",
      "DELETE {+version_url}" }

\* seconds a rate-limit response asks to wait
RetryAfters == {0, 1, 60}

\* the responses a request can get: success, a primary or a secondary
\* rate-limit response, or another error
Responses ==
    { [kind |-> "ok", retryAfter |-> 0], [kind |-> "error", retryAfter |-> 0] }
    \cup [kind : {"primary", "secondary"}, retryAfter : RetryAfters]

\* the options the callbacks are given
Options(route, count) == [url |-> route, request |-> [retryCount |-> count]]

\* variant of onRateLimit that asks for a retry whatever the retry count
onRateLimit_AlwaysRetry(retryAfter, options) == TRUE

\* onRateLimit: warns, and returns true only when
\* options.request.retryCount === 0
onRateLimit(retryAfter, options) == options.request.retryCount = 0

\* onSecondaryRateLimit: warns and returns undefined
onSecondaryRateLimit(retryAfter, options) == FALSE

\* the callback's answer for a failed response
WantRetry(response, options) ==
    IF response.kind = "primary"
    THEN onRateLimit(response.retryAfter, options)
    ELSE IF response.kind = "secondary"
    THEN onSecondaryRateLimit(response.retryAfter, options)
    ELSE FALSE

\* octokit.request(route) / a page of octokit.paginate.iterator(route)
SendRequest(route) ==
    /\ reqState = "idle"
    /\ reqKind' = route
    /\ reqState' = "sent"
    /\ UNCHANGED <<stringVars, mainVars, retryCount, responses>>

\* a response arrives; on a rate-limit response the callback decides
Respond(response) ==
    /\ reqState = "sent"
    /\ Len(responses) < MaxAttempts
    /\ responses' = Append(responses, response)
    /\ IF response.kind = "ok"
       THEN reqState' = "resolved" /\ UNCHANGED retryCount
       ELSE IF WantRetry(response, Options(reqKind, retryCount))
       THEN reqState' = "waiting" /\ retryCount' = retryCount + 1
       ELSE reqState' = "rejected" /\ UNCHANGED retryCount
    /\ UNCHANGED <<stringVars, mainVars, reqKind>>

\* retryAfter seconds have passed: the request is sent again
RetryAfterDelay ==
    /\ reqState = "waiting"
    /\ reqState' = "sent"
    /\ UNCHANGED <<stringVars, mainVars, reqKind, retryCount, responses>>

\* a run that stands still at its start
IdleRun ==
    /\ now = MkDate(2023, 6, 15)
    /\ dryRun = FALSE
    /\ jobs = 1
    /\ listings = CHOOSE l \in RefWorlds : Len(l.branches) = 1
    /\ versionData = [v \in AllVersions |-> ForeignVersion]
    /\ StartOfMain

RequestInit == IdleRun /\ NoRequest /\ NoString

RequestNext ==
    \/ \E route \in Routes : SendRequest(route)
    \/ \E response \in Responses : Respond(response)
    \/ RetryAfterDelay

RequestSpec == RequestInit /\ [][RequestNext]_vars

(***************************************************************************)
(* sanitizeTag on its own: applied to a name, to a second name and to its  *)
(* own result.                                                             *)
(***************************************************************************)
\* characters the names are made of: some the pattern keeps, and two it
\* replaces
KeptSample == {"a", "Z", "9", ".", "_", "-"}
ReplacedSample == {"/", " "}

RECURSIVE StringsOfLen(_, _)
StringsOfLen(chars, n) ==
    IF n = 0 THEN {<<>>}
    ELSE { <<c>> \o t : c \in chars, t \in StringsOfLen(chars, n - 1) }

Strings(chars, lo, hi) == UNION { StringsOfLen(chars, n) : n \in lo..hi }

\* the names that differ from x only in what fills one stretch of replaced
\* characters, or in how long it is
Twins(x) ==
    { SubSeq(x, 1, i - 1) \o r \o SubSeq(x, j + 1, Len(x)) :
        <<i, j, r>> \in
          { t \in (1..Len(x)) \X (1..Len(x)) \X Strings(ReplacedSample, 1, 2) :
              /\ t[1] <= t[2]
              /\ \A k \in t[1]..t[2] : x[k] \in ReplacedSample } }

SanitizeInit ==
    /\ IdleRun /\ NoRequest
    /\ strPhase = "input"
    /\ given \in Strings(KeptSample \cup ReplacedSample, 0, MaxLen)
    /\ twin \in Twins(given) \cup {given}
    /\ sanitized = <<>> /\ twinSanitized = <<>> /\ again = <<>>

\* sanitizeTag(given), sanitizeTag(twin)
Sanitize ==
    /\ strPhase = "input"
    /\ sanitized' = sanitizeTag(given)
    /\ twinSanitized' = sanitizeTag(twin)
    /\ strPhase' = "once"
    /\ UNCHANGED <<mainVars, requestVars, given, twin, again>>

\* sanitizeTag(sanitizeTag(given))
SanitizeAgain ==
    /\ strPhase = "once"
    /\ again' = sanitizeTag(sanitized)
    /\ strPhase' = "twice"
    /\ UNCHANGED <<mainVars, requestVars, given, twin, sanitized, twinSanitized>>

SanitizeNext == Sanitize \/ SanitizeAgain

SanitizeSpec == SanitizeInit /\ [][SanitizeNext]_vars

(***************************************************************************)
(* fetchConfigs on its own: the resolution of one version, whose configs   *)
(* stream is read to its end.                                              *)
(***************************************************************************)
\* the run has listed the first package and the filter callback of v1 has
\* just called fetchConfigs(version.name)
ResolveInit ==
    /\ now = MkDate(2023, 6, 15)
    /\ dryRun \in BOOLEAN
    /\ jobs = 1
    /\ listings \in RefWorlds
    /\ \E d1 \in Digests :
         /\ versionData = [v \in AllVersions |->
                            IF v = "v1"
                            THEN [name |-> d1, updated_at |-> MkDate(2023, 3, 1)]
                            ELSE IF v = "v2"
                            THEN [name |-> "mMain", updated_at |-> MkDate(2021, 6, 1)]
                            ELSE ForeignVersion]
         /\ mstack = [v \in AllVersions |-> IF v = "v1" THEN <<d1>> ELSE <<>>]
    /\ pc = "pipeline"
    /\ refPage = [kind \in ListingKinds |-> Len(Pages(Listed(listings, kind)))]
    /\ refNames = CollectedRefs(listings)
    /\ refError = "none"
    /\ refs = CollectedRefs(listings)
    /\ pkgState = [i \in PackageIds |-> IF i = 1 THEN "listed" ELSE "unlisted"]
    /\ evalState = [v \in AllVersions |-> IF v = "v1" THEN "running" ELSE "pending"]
    /\ reason = [v \in AllVersions |-> "none"]
    /\ leafq = [v \in AllVersions |-> <<>>]
    /\ cfgq = [v \in AllVersions |-> <<>>]
    /\ requests = [v \in AllVersions |-> EmptyBag]
    /\ delState = [v \in AllVersions |-> "none"]
    /\ delCalls = [v \in AllVersions |-> 0]
    /\ logged = {}
    /\ consumed = {}
    /\ deleted = 0
    /\ summary = <<>>
    /\ NoRequest /\ NoString

ResolveNext == FetchManifestStep("v1") \/ FetchConfigStep("v1")

\* every registry request gets its response
ResolveSpec == ResolveInit /\ [][ResolveNext]_vars /\ WF_vars(ResolveNext)

(***************************************************************************)
(* Vocabulary of the properties: ages counted in days on the civil         *)
(* calendar, and the platform variants of a version read off the registry. *)
(***************************************************************************)
RECURSIVE DaysBeforeMonth(_, _)
DaysBeforeMonth(y, m) ==
    IF m = 1 THEN 0 ELSE DaysBeforeMonth(y, m - 1) + DaysInMonth(y, m - 1)

\* days since the civil epoch
DayNumber(date) ==
    365 * date.y + ((date.y - 1) \div 4) - ((date.y - 1) \div 100)
    + ((date.y - 1) \div 400) + DaysBeforeMonth(date.y, date.m) + date.d

\* the same day of the year before; 29 February has none and stands for 1 March
OneYearBefore(date) ==
    IF date.m = 2 /\ date.d = 29 THEN MkDate(date.y - 1, 3, 1)
    ELSE MkDate(date.y - 1, date.m, date.d)

\* the stamps a version can carry
Stamps ==
    UpdatedDates \cup { c.updated_at : c \in V2Choices }
    \cup { ForeignVersion.updated_at }

\* the day number of every clock, stamp and anniversary of a run
DayOf ==
    [ date \in Stamps \cup Nows \cup { OneYearBefore(clock) : clock \in Nows }
        |-> DayNumber(date) ]

\* updated_at is later than now - 1 day
Fresh(v) == DayOf[versionData[v].updated_at] > DayOf[now] - 1

\* updated_at is more than one year before now
Ancient(v) == DayOf[versionData[v].updated_at] < DayOf[OneYearBefore(now)]

MiddleBand(v) == ~Fresh(v) /\ ~Ancient(v)

Live == ~dryRun

(***************************************************************************)
(* C1: in a live run a DELETE is issued for a version only once its        *)
(* evaluation has ended with the verdict delete (too old, or every label   *)
(* unprotected); no DELETE is ever issued for a version that is kept, still *)
(* under evaluation or not evaluated at all.                               *)
(***************************************************************************)
C1_DeleteOnlyAfterDeleteVerdict ==
    \A v \in AllVersions :
       (delCalls[v] > 0 \/ delState[v] # "none") =>
          /\ evalState[v] = "delete"
          /\ reason[v] \in {"too_old", "label_unprotected"}

\* a live run has issued a DELETE for v2 while v1 was decided keep and got none
C1_Witness ==
    /\ Live
    /\ delCalls["v2"] = 1
    /\ evalState["v1"] = "keep"
    /\ delCalls["v1"] = 0

(***************************************************************************)
(* C2: a version updated later than now - 1 day is kept (too_new) whatever *)
(* its manifest and labels are, and no manifest or config request is made  *)
(* for it, and no DELETE.                                                  *)
(***************************************************************************)
C2_FreshIsKeptWithoutRequests ==
    \A v \in InStream :
       Fresh(v) =>
          /\ evalState[v] \in {"pending", "keep"}
          /\ evalState[v] = "keep" => reason[v] = "too_new"
          /\ requests[v] = EmptyBag
          /\ delCalls[v] = 0

\* a fresh version whose only label is unprotected (it would be deleted in the
\* middle band) has been evaluated and kept
C2_Witness ==
    /\ Fresh("v1")
    /\ versionData["v1"].name = "mStale"
    /\ versionData["v1"].updated_at = now
    /\ evalState["v1"] = "keep"
    /\ pc = "done"

(***************************************************************************)
(* C3: a version updated more than one year before now is decided delete   *)
(* and no manifest or config request is made for it.                       *)
(***************************************************************************)
C3_AncientIsDeletedWithoutRequests ==
    \A v \in InStream :
       Ancient(v) =>
          /\ evalState[v] \in {"pending", "delete"}
          /\ requests[v] = EmptyBag

(***************************************************************************)
(* The platform variants of a manifest, read off the registry: the config  *)
(* digest of every leaf manifest below it, in the order of the children    *)
(* lists; "broken" stands for a variant whose manifest or config the       *)
(* registry does not deliver.                                              *)
(***************************************************************************)
RECURSIVE Variants(_)
Variants(digest) ==
    LET m == Manifests[digest]
        kids == [k \in DOMAIN m.manifests |-> Variants(m.manifests[k])] IN
    IF m.status # "ok" THEN <<"broken">>
    ELSE IF m.mediaType \in {DockerList, OciIndex} THEN Flatten(kids)
    ELSE IF m.mediaType \in {DockerManifest, OciManifest}
            /\ m.config # "none" /\ Blobs[m.config].status = "ok"
    THEN <<m.config>>
    ELSE <<"broken">>

\* the variants of every manifest of the registry
VariantsOf == [ digest \in Digests |-> Variants(digest) ]

\* the names the three listings of a repository give, sanitized
NamesOf == [ l \in RefWorlds |-> CollectedRefs(l) ]

IsIndex(digest) ==
    Manifests[digest].status = "ok"
    /\ Manifests[digest].mediaType \in {DockerList, OciIndex}

IsSingleManifest(digest) ==
    Manifests[digest].status = "ok"
    /\ Manifests[digest].mediaType \in {DockerManifest, OciManifest}

\* the config has a version label (a non-empty string)
HasVersionLabel(c) ==
    c # "broken" /\ Blobs[c].labels = "object"
    /\ Blobs[c].hasVersion /\ Blobs[c].version # EmptyString

VersionLabel(c) == Blobs[c].version

C5_SinglePlatformRule ==
    \A v \in InStream :
       LET d == versionData[v].name
           c == Manifests[d].config IN
       (Decided(v) /\ MiddleBand(v) /\ IsSingleManifest(d)
          /\ c # "none" /\ Blobs[c].status = "ok") =>
          IF HasVersionLabel(c)
          THEN IF sanitizeTag(VersionLabel(c)) \in NamesOf[listings]
               THEN evalState[v] = "keep"
               ELSE evalState[v] = "delete"
          ELSE evalState[v] = "keep"

(***************************************************************************)
(* C6: a variant whose label L sanitizes to the sanitized name of a live   *)
(* reference votes keep, so a version with such a variant is never         *)
(* decided delete after its labels were inspected.                         *)
(***************************************************************************)
C6_SanitizedLabelProtects ==
    \A v \in InStream :
       (evalState[v] = "delete" /\ reason[v] = "label_unprotected") =>
          LET variants == VariantsOf[versionData[v].name] IN
          \A k \in DOMAIN variants :
             HasVersionLabel(variants[k]) =>
                sanitizeTag(VersionLabel(variants[k])) \notin NamesOf[listings]

(***************************************************************************)
(* The verdict the retention rules give a version, as a function of the    *)
(* inputs of the run alone (clock, listings, registry).                    *)
(***************************************************************************)
DeleteRule(data, l, clock) ==
    LET variants == VariantsOf[data.name] IN
    /\ ~TooNew(data.updated_at, clock)
    /\ \/ TooOld(data.updated_at, clock)
       \/ \A k \in DOMAIN variants :
             /\ HasVersionLabel(variants[k])
             /\ VersionLabel(variants[k]) \notin NamesOf[l]

\* what a version can be listed as
VersionChoices ==
    { [name |-> digest, updated_at |-> stamp] :
        digest \in Digests, stamp \in Stamps }

\* the listed versions the rules delete, for every repository and clock
DeletedBy ==
    [ l \in RefWorlds, clock \in Nows |->
        { data \in VersionChoices : DeleteRule(data, l, clock) } ]

ExpectedDelete(v) == versionData[v] \in DeletedBy[listings, now]

ExpectedDeletions == { v \in InStream : ExpectedDelete(v) }

\* main() rejected before the pipeline ran: repository, references or packages
BeforePipeline ==
    /\ \A i \in PackageIds : pkgState[i] = "unlisted"
    /\ \A v \in AllVersions : evalState[v] = "pending"
ListingFailed == \E i \in PackageIds : pkgState[i] = "failed"
DeleteFailed == \E v \in AllVersions : delState[v] = "failed"
Ended == pc \in {"done", "fatal"}

(***************************************************************************)
(* C7: an exception raised while one version is evaluated is caught at     *)
(* that version: the version is kept and never deleted, the run is not     *)
(* aborted by it (a run only aborts before the pipeline, on a failed       *)
(* listing or on a failed DELETE) and can always go on, and a run that     *)
(* reaches its summary has evaluated every version and deleted (or logged) *)
(* every eligible one.                                                     *)
(***************************************************************************)
C7_EvaluationErrorIsIsolated ==
    /\ \A v \in AllVersions :
          reason[v] = "resolution_error" =>
             evalState[v] = "keep" /\ delCalls[v] = 0 /\ v \notin logged
    /\ pc = "fatal" => (BeforePipeline \/ ListingFailed \/ DeleteFailed)
    /\ (pc = "pipeline" /\ \E v \in InStream : reason[v] = "resolution_error")
          => ENABLED Next
    /\ pc = "done" =>
          \A v \in InStream :
             /\ Decided(v)
             /\ ExpectedDelete(v) =>
                   /\ evalState[v] = "delete"
                   /\ v \in consumed
                   /\ IF dryRun THEN v \in logged
                      ELSE delCalls[v] = 1 /\ delState[v] = "ok"

\* v1's manifest request failed, v1 was kept for it, and the run went on to
\* evaluate and delete v2 and to report its summary
C7_Witness ==
    /\ versionData["v1"].name \in {"mErr", "mBadJson", "mUnknown", "mNoCfg",
                                   "mBlobErr", "mNullLab", "iUnkChild"}
    /\ reason["v1"] = "resolution_error"
    /\ Live
    /\ pc = "done"
    /\ delState["v2"] = "ok"
    /\ summary = <<1>>

(***************************************************************************)
(* C8: a dry run never issues a DELETE request, and in either mode no      *)
(* version is both only-logged and the object of a DELETE request.         *)
(***************************************************************************)
C8_DryRunIssuesNoDelete ==
    /\ dryRun => \A v \in AllVersions :
                    delCalls[v] = 0 /\ delState[v] \in {"none", "returned"}
    /\ \A v \in AllVersions : ~(v \in logged /\ delCalls[v] > 0)
    /\ Live => logged = {}

\* a dry run has ended reporting two versions, both only logged
C8_Witness ==
    /\ dryRun
    /\ pc = "done"
    /\ summary = <<2>>
    /\ logged = {"v1", "v2"}
    /\ \A v \in AllVersions : delCalls[v] = 0

SanitizedListing ==
    [ l \in RefWorlds, kind \in ListingKinds |->
        { sanitizeTag(RefName(kind, Listed(l, kind)[k])) :
            k \in DOMAIN Listed(l, kind) } ]

ClosedPulls ==
    [ l \in RefWorlds |->
        { PrName(l.pulls[k].number) :
            k \in { j \in DOMAIN l.pulls : l.pulls[j].state = "closed" } } ]

LastPage ==
    [ l \in RefWorlds, kind \in ListingKinds |-> Len(Pages(Listed(l, kind))) ]

(***************************************************************************)
(* C11: once collected, the reference set every retention decision reads   *)
(* is exactly the sanitized names of all branches and all tags and         *)
(* pr-<number> of every open pull request, over all pages of the three     *)
(* listings, whatever the kind of the reference; a closed pull request     *)
(* adds no name.                                                           *)
(***************************************************************************)
C11_RefsAreAllSanitizedNames ==
    pc \in {"packages", "pipeline", "done"} =>
       /\ refs = NamesOf[listings]
       /\ \A kind \in ListingKinds : SanitizedListing[listings, kind] \subseteq refs
       /\ ClosedPulls[listings] \cap refs = {}

\* the run reached the pipeline with the names of both pages of branches
\* (feat/x as feat-x), the tag and the open pull request 42, and without the
\* closed pull request 7
C11_Witness ==
    /\ pc = "pipeline"
    /\ refPage["branches"] = 2
    /\ refs = { <<"m","a","i","n">>, <<"f","e","a","t","-","x">>,
                <<"v","1",".","0",".","0">>, <<"p","r","-","4","2">> }

(***************************************************************************)
(* C12: when a page of the branches, tags or open pull requests listing    *)
(* fails, the run is aborted as fatal: no package is listed, no version is *)
(* evaluated, no registry or DELETE request is made, nothing is logged for *)
(* deletion and no summary is reported.                                    *)
(***************************************************************************)
C12_RefListingFailureIsFatal ==
    /\ refError # "none" =>
          /\ pc = "fatal"
          /\ BeforePipeline
          /\ \A v \in AllVersions :
                requests[v] = EmptyBag /\ delCalls[v] = 0 /\ delState[v] = "none"
          /\ logged = {}
          /\ summary = <<>>
    /\ pc \in {"packages", "pipeline", "done"} => refError = "none"

\* the second page of the tags listing failed after the first was received
C12_Witness ==
    /\ refError = "tags"
    /\ refPage["tags"] = 1
    /\ refPage["branches"] = 1
    /\ pc = "fatal"

(***************************************************************************)
(* C13: version listing, evaluation and deletion happen only for packages  *)
(* whose repository association is the target repository; the versions of  *)
(* a package of another repository or of no repository are never listed,   *)
(* never evaluated, never requested from the registry and never deleted or *)
(* counted.                                                                *)
(***************************************************************************)
C13_OnlyPackagesOfTheRepository ==
    \A i \in PackageIds :
       Packages[i].repository # RepoNodeId =>
          /\ pkgState[i] = "unlisted"
          /\ \A v \in Range(Packages[i].versions) :
                /\ evalState[v] = "pending"
                /\ requests[v] = EmptyBag
                /\ delState[v] = "none" /\ delCalls[v] = 0
                /\ v \notin logged /\ v \notin consumed

\* a live run deleted both versions of the repository's packages and ended
\* with a summary of 2, while the three-year-old versions of the package of
\* another repository and of the package without repository were left alone
C13_Witness ==
    /\ Live
    /\ pc = "done"
    /\ summary = <<2>>
    /\ delState["v1"] = "ok" /\ delState["v2"] = "ok"
    /\ Packages[2].repository = "other" /\ Packages[3].repository = "none"
    /\ Ancient("x1") /\ Ancient("x2")
    /\ evalState["x1"] = "pending" /\ evalState["x2"] = "pending"
    /\ pkgState[2] = "unlisted" /\ pkgState[3] = "unlisted"

C15_AtMostJobsAtOnce ==
    /\ Cardinality(Listing) <= jobs
    /\ Cardinality(Running) <= jobs
    /\ Cardinality(InFlight) <= jobs

\* with concurrency 1, v1 is under evaluation with a manifest request
\* outstanding, while v2, listed and next in the stream, has to wait
C15_Witness ==
    /\ jobs = 1
    /\ evalState["v1"] = "running"
    /\ mstack["v1"] # <<>>
    /\ pkgState[4] = "listed"
    /\ evalState["v2"] = "pending"
    /\ ~TooNew(versionData["v2"].updated_at, now)
    /\ ~TooOld(versionData["v2"].updated_at, now)

(***************************************************************************)
(* C16: the evaluation of a version (and so any manifest or config request *)
(* and any DELETE for it) starts only after each of the three reference    *)
(* listings was enumerated to its last page and the version list of the    *)
(* version's package was fetched completely.                               *)
(***************************************************************************)
C16_EvaluationAfterRefsAndVersionList ==
    \A v \in AllVersions :
       (evalState[v] # "pending" \/ requests[v] # EmptyBag
          \/ delState[v] # "none" \/ delCalls[v] > 0 \/ v \in logged) =>
          /\ \A kind \in ListingKinds :
                refPage[kind] = LastPage[listings, kind]
          /\ refError = "none"
          /\ refs = refNames
          /\ pkgState[PkgOf(v)] = "listed"

\* v1 is under evaluation after both pages of branches and the pages of tags
\* and pull requests were received, while the versions of v2's package are
\* still being listed and v2 waits
C16_Witness ==
    /\ refPage = [kind \in ListingKinds |-> IF kind = "branches" THEN 2 ELSE 1]
    /\ evalState["v1"] = "running"
    /\ requests["v1"] # EmptyBag
    /\ pkgState[1] = "listed"
    /\ pkgState[4] = "listing"
    /\ evalState["v2"] = "pending"

(***************************************************************************)
(* C17: a failure while the versions of one matching package are listed is *)
(* not isolated to that package: the run never reports a summary, it can   *)
(* only end as fatal, and it does not hang; an evaluation error of one     *)
(* version, in contrast, leaves the run going.                             *)
(***************************************************************************)
C17_VersionListingFailureIsFatal ==
    /\ ListingFailed =>
          /\ pc \in {"pipeline", "fatal"}
          /\ summary = <<>>
          /\ pc = "pipeline" => (ENABLED Next /\ ~ENABLED Summary)
    /\ (pc = "done") =>
          \A i \in repoPackages : pkgState[i] = "listed"
    /\ (pc = "done" /\ \E v \in InStream : reason[v] = "resolution_error") =>
          Len(summary) = 1

\* the listing of v2's package failed after v1 had been evaluated and
\* deleted: the run ended fatal without a summary
C17_Witness ==
    /\ pkgState[1] = "listed"
    /\ pkgState[4] = "failed"
    /\ delState["v1"] = "ok"
    /\ evalState["v2"] = "pending"
    /\ pc = "fatal"
    /\ summary = <<>>

(***************************************************************************)
(* C18: sanitize is idempotent, its output holds only characters of        *)
(* [A-Za-z0-9._-], every stretch of other characters becomes a single '-'  *)
(* while the other characters stay as they are, and two names that differ  *)
(* only in what fills such a stretch, or in its length, sanitize to the    *)
(* same string.                                                            *)
(***************************************************************************)
C18_SanitizeIsIdempotentAndCollapsesRuns ==
    LET Replaced(k) == given[k] \in ReplacedSample
        StartsRun(k) == Replaced(k) /\ (k = 1 \/ ~Replaced(k - 1))
        Shown(k) == ~Replaced(k) \/ StartsRun(k)
        At(k) == Cardinality({ j \in 1..k : Shown(j) }) IN
    /\ strPhase \in {"once", "twice"} =>
          /\ \A k \in DOMAIN sanitized : sanitized[k] \in KeptSample
          /\ Len(sanitized) = Cardinality({ k \in DOMAIN given : Shown(k) })
          /\ \A k \in DOMAIN given :
                Shown(k) =>
                   sanitized[At(k)] = (IF Replaced(k) THEN "-" ELSE given[k])
          /\ twinSanitized = sanitized
    /\ strPhase = "twice" => again = sanitized

\* 'a//' and its twin 'a ' were both sanitized to 'a-', and sanitizing 'a-'
\* again gave 'a-'
C18_Witness ==
    /\ strPhase = "twice"
    /\ given = <<"a", "/", "/">>
    /\ twin = <<"a", " ">>
    /\ sanitized = <<"a", "-">>
    /\ twinSanitized = <<"a", "-">>
    /\ again = <<"a", "-">>

(***************************************************************************)
(* C19: when every request gets its response, a run ends, and in one of    *)
(* two ways: with a single summary line, logged after every version was    *)
(* evaluated and every version decided delete was processed, or as fatal   *)
(* without a summary; it never reports more than one summary.              *)
(***************************************************************************)
C19_RunEndsWithOneSummaryOrFatal ==
    /\ <>Ended
    /\ [](/\ Len(summary) <= 1
          /\ pc = "done" <=> Len(summary) = 1
          /\ pc = "done" =>
                \A v \in InStream :
                   /\ Decided(v)
                   /\ evalState[v] = "delete" =>
                         v \in consumed /\ delState[v] \in {"returned", "ok"}
          /\ pc = "fatal" => summary = <<>>)

\* a dry run ended with the summary `Will delete 0`, both versions kept
C19_Witness ==
    /\ dryRun
    /\ pc = "done"
    /\ summary = <<0>>
    /\ evalState["v1"] = "keep" /\ evalState["v2"] = "keep"

(***************************************************************************)
(* A manifest the registry delivers with a media type that is none of the  *)
(* four accepted ones, at the digest itself or anywhere below an index.    *)
(***************************************************************************)
UnknownType(digest) ==
    /\ Manifests[digest].status = "ok"
    /\ Manifests[digest].mediaType \notin
          {DockerManifest, OciManifest, DockerList, OciIndex}

RECURSIVE HoldsUnknownType(_)
HoldsUnknownType(digest) ==
    \/ UnknownType(digest)
    \/ /\ IsIndex(digest)
       /\ \E k \in DOMAIN Manifests[digest].manifests :
             HoldsUnknownType(Manifests[digest].manifests[k])

\* the manifests of the registry of unknown media type
OfUnknownType == { digest \in Digests : UnknownType(digest) }

\* the manifests of the registry that hold an unknown media type
WithUnknownType == { digest \in Digests : HoldsUnknownType(digest) }

\* the evaluation of v went into manifest resolution
Resolved(v) == Decided(v) /\ reason[v] \notin {"too_new", "too_old"}

(***************************************************************************)
(* C20: a manifest of unknown media type, at the top level or as a child   *)
(* of an index, fails the resolution that meets it: the version is kept    *)
(* and never deleted; the child is not skipped, so a version whose other   *)
(* children would all vote delete is kept for the error, not deleted on    *)
(* their configs.                                                          *)
(***************************************************************************)
C20_UnknownMediaTypeKeepsVersion ==
    \A v \in InStream :
       /\ (\E d \in OfUnknownType : BagIn(d, requests[v])) =>
             /\ evalState[v] = "keep"
             /\ reason[v] = "resolution_error"
             /\ delCalls[v] = 0 /\ v \notin logged
       /\ (Resolved(v) /\ versionData[v].name \in WithUnknownType) =>
             /\ evalState[v] = "keep"
             /\ reason[v] \in {"resolution_error", "label_protected", "label_missing"}
             /\ reason[v] # "resolution_error" =>
                   \E k \in DOMAIN VariantsOf[versionData[v].name] :
                      LET c == VariantsOf[versionData[v].name][k] IN
                      /\ c # "broken"
                      /\ BagIn(c, requests[v])
                      /\ ~(HasVersionLabel(c) /\ VersionLabel(c) \notin refs)

\* the index with children v0.9.0 (no reference) and a manifest of unknown
\* type: the first child's config was requested, the unknown child was met,
\* and the version was kept for the error while the run went on to its end
C20_Witness ==
    /\ versionData["v1"].name = "iUnkChild"
    /\ NameStale \notin refs
    /\ BagIn("cStale", requests["v1"])
    /\ BagIn("mUnknown", requests["v1"])
    /\ evalState["v1"] = "keep"
    /\ reason["v1"] = "resolution_error"
    /\ pc = "done"

(***************************************************************************)
(* The leaf manifests of a manifest tree, in the order of the children     *)
(* lists, and the trees every node of which the registry delivers as a     *)
(* manifest or an index with the config of every leaf.                     *)
(***************************************************************************)
RECURSIVE LeafManifests(_)
LeafManifests(digest) ==
    IF IsIndex(digest)
    THEN Flatten([k \in DOMAIN Manifests[digest].manifests |->
                    LeafManifests(Manifests[digest].manifests[k])])
    ELSE <<digest>>

LeavesOf == [ digest \in Digests |-> LeafManifests(digest) ]

RECURSIVE Depth(_)
Depth(digest) ==
    IF IsIndex(digest) /\ Manifests[digest].manifests # <<>>
    THEN 1 + CHOOSE n \in 0..Cardinality(Digests) :
                /\ \E k \in DOMAIN Manifests[digest].manifests :
                      Depth(Manifests[digest].manifests[k]) = n
                /\ \A k \in DOMAIN Manifests[digest].manifests :
                      Depth(Manifests[digest].manifests[k]) <= n
    ELSE 0

SoundTrees == { digest \in Digests : "broken" \notin Range(VariantsOf[digest]) }

\* the resolution of v has ended: it threw, or its streams are drained
ResolveEnded(v) ==
    evalState[v] # "running" \/ (mstack[v] = <<>> /\ leafq[v] = <<>>)

(***************************************************************************)
(* C21: the resolution of any manifest tree ends, and for a tree that the  *)
(* registry delivers whole it yields exactly one config per leaf manifest, *)
(* in the order of the children lists at every depth, and nothing for the  *)
(* index manifests: each index and each leaf manifest is requested, each   *)
(* leaf's config is requested, and the configs yielded so far are always   *)
(* the first of the expected ones.                                         *)
(***************************************************************************)
C21_ResolveYieldsOneConfigPerLeaf ==
    LET d == versionData["v1"].name
        leaves == LeavesOf[d]
        expected == [k \in DOMAIN leaves |-> Manifests[leaves[k]].config]
        yielded == cfgq["v1"] IN
    /\ <>ResolveEnded("v1")
    /\ [](d \in SoundTrees =>
            /\ evalState["v1"] = "running"
            /\ Len(yielded) <= Len(expected)
            /\ yielded = SubSeq(expected, 1, Len(yielded))
            /\ \A k \in DOMAIN leafq["v1"] :
                  leafq["v1"][k] = leaves[Len(yielded) + k]
            /\ ResolveEnded("v1") =>
                  /\ yielded = expected
                  /\ Len(yielded) = Len(leaves)
                  /\ \A k \in DOMAIN yielded :
                        /\ yielded[k] # "none"
                        /\ BagIn(yielded[k], requests["v1"])
                        /\ BagIn(leaves[k], requests["v1"]))

\* the index of depth 3 was resolved to its end: four configs, those of the
\* leaves of the nested indices first, in the order of the children lists
C21_Witness ==
    /\ versionData["v1"].name = "iDeep"
    /\ Depth("iDeep") = 3
    /\ ResolveEnded("v1")
    /\ evalState["v1"] = "running"
    /\ cfgq["v1"] = <<"cStale", "cCaps", "cStale", "cCaps">>
    /\ BagIn("iNested", requests["v1"]) /\ BagIn("iStale", requests["v1"])

(***************************************************************************)
(* C22: within the resolution of one version no manifest digest is         *)
(* requested from the registry more than once, also when an index lists    *)
(* the same child twice or two nested indices share a child.               *)
(***************************************************************************)
C22_NoManifestRequestedTwice ==
    \A v \in AllVersions :
       \A d \in Digests : CopiesIn(d, requests[v]) <= 1

(***************************************************************************)
(* What the registry answers with a failure: a manifest or a config blob   *)
(* it delivers with a non-2xx status or a body that does not parse; and    *)
(* the manifests it delivers without a config digest.                      *)
(***************************************************************************)
FailingManifests == { d \in Digests : Manifests[d].status # "ok" }
FailingBlobs == { c \in DOMAIN Blobs : Blobs[c].status # "ok" }
WithoutConfig == { d \in Digests : IsSingleManifest(d) /\ Manifests[d].config = "none" }

C24_CutoffsAreOneDayAndOneYear ==
    /\ DayOf[now] - DayNumber(minAge(now)) = 1
    /\ maxAge(now) = OneYearBefore(now)
    /\ \A v \in InStream :
          Ancient(v) =>
             /\ evalState[v] # "running"
             /\ requests[v] = EmptyBag
             /\ reason[v] \in {"none", "too_old"}

\* the manifests whose resolution succeeds and yields no image manifest
Leafless == { digest \in SoundTrees : VariantsOf[digest] = <<>> }

(***************************************************************************)
(* C25: a version of the middle age band whose manifest resolves without   *)
(* error to no leaf config at all (an index with an empty manifest list)   *)
(* is decided delete: it is never kept, no config is requested for it, and *)
(* the run that ends has passed it to the deletion stage.                  *)
(***************************************************************************)
C25_NoVariantsMeansDelete ==
    \A v \in InStream :
       (versionData[v].name \in Leafless /\ MiddleBand(v)) =>
          /\ evalState[v] # "keep"
          /\ leafq[v] = <<>> /\ cfgq[v] = <<>>
          /\ Decided(v) =>
                /\ reason[v] = "label_unprotected"
                /\ requests[v] = SetToBag({versionData[v].name})
          /\ pc = "done" => Decided(v) /\ v \in consumed

C25_Witness ==
    /\ versionData["v1"].name = "iEmpty"
    /\ MiddleBand("v1")
    /\ refs # {}
    /\ evalState["v1"] = "delete"
    /\ reason["v1"] = "label_unprotected"
    /\ requests["v1"] = SetToBag({"iEmpty"})
    /\ "v1" \in consumed
    /\ pc = "done"

\* the delete operations a version has received: `DELETE <url>` log lines of
\* a dry run and DELETE requests
Operations(v) == delCalls[v] + (IF v \in logged THEN 1 ELSE 0)

\* the deletion stage has taken v
Taken(v) == delState[v] # "none"

(***************************************************************************)
(* C26: in one run a version is evaluated at most once (it never becomes   *)
(* pending again and its verdict never changes) and is passed to the       *)
(* deletion stage at most once (one delete operation, counted once by the  *)
(* reduce), under every interleaving allowed by the concurrency, so the    *)
(* count of the summary never exceeds the number of versions listed.       *)
(***************************************************************************)
C26_EachVersionOnce ==
    /\ [](/\ Len(versions) = Cardinality(InStream)
          /\ \A v \in AllVersions :
                /\ Operations(v) <= 1
                /\ Taken(v) => v \in InStream /\ evalState[v] = "delete"
                /\ v \in consumed => Taken(v) /\ Operations(v) = 1
          /\ deleted = Cardinality(consumed)
          /\ deleted <= Len(versions)
          /\ \A k \in DOMAIN summary : summary[k] <= Len(versions))
    /\ [][\A v \in AllVersions :
            /\ evalState[v] # "pending" => evalState'[v] # "pending"
            /\ Decided(v) => evalState'[v] = evalState[v] /\ reason'[v] = reason[v]
            /\ Taken(v) => /\ Taken(v)'
                           /\ delCalls'[v] = delCalls[v]
                           /\ (v \in logged') = (v \in logged)
            /\ v \in consumed => v \in consumed']_vars

C26_Witness ==
    /\ pc = "done"
    /\ jobs = 2
    /\ ~dryRun
    /\ Len(versions) = 2
    /\ \A v \in InStream : delCalls[v] = 1 /\ delState[v] = "ok" /\ v \in consumed
    /\ versionData["v1"].name = "iMixed"
    /\ summary = <<2>>

====
